---- MODULE Spec2Model ----
(***************************************************************************)
(* Model of src/charging_calculator.py, the electric aircraft charging     *)
(* calculator: the three reference tables, the two calculation functions,  *)
(* the capacity warning and the module-level script that wires them to     *)
(* the sidebar widgets and to the displayed results.                       *)
(*                                                                         *)
(* Numbers.  The program computes in Python floats.  The model computes    *)
(* in exact rationals, in the order of operations of the source; the float *)
(* literals 92.5, 0.35, 1.7 ... are the decimals they are written as.      *)
(* Rounding error of the floats (relative 1e-16) is not modelled.          *)
(*                                                                         *)
(* A script variable that has not been assigned is Unassigned; an absent   *)
(* exception is the empty string.                                          *)
(***************************************************************************)
EXTENDS Integers, Sequences, FiniteSets, TLC

VARIABLES
    aircraft_data,       \* the module-level dict, lines 17-36
    charging_levels,     \* the module-level dict, lines 38-42
    scenarios,           \* the module-level dict, lines 44-48
    operation_category,  \* widget value, line 52
    num_operations,      \* widget value, line 53
    charging_level,      \* widget value, line 54
    charging_window,     \* widget value, line 55
    scenario,            \* widget value, line 56
    feasibility,         \* line 73
    adoption,            \* line 74
    annual_energy,       \* line 75
    avg_power,           \* line 76
    peak_power,          \* line 76
    charging_power_kW,   \* line 78
    warning,             \* what st.warning displayed, line 80: <<>> or <<message>>
    metrics,             \* what st.metric displayed, lines 84-86: <<>> or <<record>>
    exc,                 \* the exception that ended the run, "" when none
    pc                   \* position of the script run

vars == <<aircraft_data, charging_levels, scenarios, operation_category,
          num_operations, charging_level, charging_window, scenario,
          feasibility, adoption, annual_energy, avg_power, peak_power,
          charging_power_kW, warning, metrics, exc, pc>>

catalog == <<aircraft_data, charging_levels, scenarios>>
inputs == <<operation_category, num_operations, charging_level,
            charging_window, scenario>>

----------------------------------------------------------------------------
(* Bounds of the model *)

\* num_operations ranges over 0..MaxSmallOps and over the multiples
\* OpsDefault, 2*OpsDefault, ..., MaxOpsSteps*OpsDefault of the widget's default.
MaxSmallOps == 3
MaxOpsSteps == 5

\* the rates of the monotonicity checks are k / RateSteps, k in 0..RateSteps
RateSteps == 10

\* the ops_growth_years tried are 1..MaxGrowthYears
MaxGrowthYears == 10

----------------------------------------------------------------------------
(* Exact rational arithmetic, standing for Python's float arithmetic.      *)
(*                                                                         *)
(* The program only multiplies and divides, mostly by decimals and by      *)
(* hours, so a number is kept with its powers of 2, 3 and 5 apart:         *)
(* [n, d, p2, p3, p5] is (n / d) * 2^p2 * 3^p3 * 5^p5, where n and d are   *)
(* coprime to each other and to 2, 3 and 5, and d > 0; zero is n = 0,      *)
(* d = 1, p2 = p3 = p5 = 0.  The form is canonical, so equal numbers are   *)
(* equal values.  Magnitudes are compared and rounded in arbitrary         *)
(* precision (the Big operators): the products exceed 32 bits.             *)

Abs(i) == IF i < 0 THEN -i ELSE i
Sgn(i) == IF i < 0 THEN -1 ELSE IF i = 0 THEN 0 ELSE 1

RECURSIVE GCD(_, _)
GCD(a, b) == IF b = 0 THEN a ELSE GCD(b, a % b)

RECURSIVE IntPow(_, _)
IntPow(p, k) == IF k = 0 THEN 1 ELSE p * IntPow(p, k - 1)

\* the exponent of p in i > 0
RECURSIVE PrimePower(_, _)
PrimePower(i, p) == IF i % p = 0 THEN 1 + PrimePower(i \div p, p) ELSE 0

\* i > 0 without its factors p
RECURSIVE Without(_, _)
Without(i, p) == IF i % p = 0 THEN Without(i \div p, p) ELSE i

Zero == [n |-> 0, d |-> 1, p2 |-> 0, p3 |-> 0, p5 |-> 0]

\* the value of a name that is not bound: no number has d = 0
Unassigned == [n |-> 0, d |-> 0, p2 |-> 0, p3 |-> 0, p5 |-> 0]

FromInt(i) ==
    IF i = 0 THEN Zero
    ELSE [n |-> Sgn(i) * Without(Without(Without(Abs(i), 2), 3), 5),
          d |-> 1,
          p2 |-> PrimePower(Abs(i), 2),
          p3 |-> PrimePower(Abs(i), 3),
          p5 |-> PrimePower(Abs(i), 5)]

IsZero(a) == a.n = 0
Sign(a) == Sgn(a.n)

\* a * b
Mul(a, b) ==
    IF IsZero(a) \/ IsZero(b) THEN Zero
    ELSE LET g1 == GCD(Abs(a.n), b.d)
             g2 == GCD(Abs(b.n), a.d)
         IN  [n |-> (a.n \div g1) * (b.n \div g2),
              d |-> (a.d \div g2) * (b.d \div g1),
              p2 |-> a.p2 + b.p2,
              p3 |-> a.p3 + b.p3,
              p5 |-> a.p5 + b.p5]

\* 1 / b for b # 0
Inverse(b) ==
    [n |-> Sgn(b.n) * b.d, d |-> Abs(b.n), p2 |-> -b.p2, p3 |-> -b.p3, p5 |-> -b.p5]

\* a / b for b # 0 (Python raises ZeroDivisionError for b = 0)
Div(a, b) == Mul(a, Inverse(b))

\* the decimal literal m / 10^k, as 92.5 is Decimal(925, 1)
Decimal(m, k) == Div(FromInt(m), FromInt(IntPow(10, k)))

\* Natural numbers of any size: the digits in base BigBase, least
\* significant first, the last one not 0; <<>> is 0.
BigBase == IntPow(10, 4)

RECURSIVE BigFromInt(_)
BigFromInt(i) == IF i = 0 THEN <<>> ELSE <<i % BigBase>> \o BigFromInt(i \div BigBase)

RECURSIVE BigToInt(_)
BigToInt(b) == IF b = <<>> THEN 0 ELSE b[1] + BigBase * BigToInt(Tail(b))

\* b * k + carry, for 0 < k
RECURSIVE BigMulSmall(_, _, _)
BigMulSmall(b, k, carry) ==
    IF b = <<>> THEN BigFromInt(carry)
    ELSE LET t == b[1] * k + carry
         IN  <<t % BigBase>> \o BigMulSmall(Tail(b), k, t \div BigBase)

RECURSIVE BigMulPow(_, _, _)
BigMulPow(b, p, k) == IF k <= 0 THEN b ELSE BigMulPow(BigMulSmall(b, p, 0), p, k - 1)

RECURSIVE BigAdd(_, _, _)
BigAdd(a, b, carry) ==
    IF a = <<>> /\ b = <<>> THEN BigFromInt(carry)
    ELSE LET x == IF a = <<>> THEN 0 ELSE a[1]
             y == IF b = <<>> THEN 0 ELSE b[1]
             t == x + y + carry
         IN  <<t % BigBase>>
             \o BigAdd(IF a = <<>> THEN a ELSE Tail(a),
                       IF b = <<>> THEN b ELSE Tail(b), t \div BigBase)

RECURSIVE BigTrim(_)
BigTrim(b) ==
    IF b # <<>> /\ b[Len(b)] = 0 THEN BigTrim(SubSeq(b, 1, Len(b) - 1)) ELSE b

\* the digits 1..i of floor(b / k), rem being what the digits above i left
RECURSIVE BigDivDigits(_, _, _, _)
BigDivDigits(b, k, i, rem) ==
    IF i = 0 THEN <<>>
    ELSE LET t == rem * BigBase + b[i]
         IN  BigDivDigits(b, k, i - 1, t % k) \o <<t \div k>>

\* floor(b / k), for 0 < k
BigDivSmall(b, k) == BigTrim(BigDivDigits(b, k, Len(b), 0))

RECURSIVE BigDivPow(_, _, _)
BigDivPow(b, p, k) == IF k <= 0 THEN b ELSE BigDivPow(BigDivSmall(b, p), p, k - 1)

RECURSIVE BigLessFrom(_, _, _)
BigLessFrom(a, b, i) ==
    IF i = 0 THEN FALSE
    ELSE IF a[i] # b[i] THEN a[i] < b[i]
    ELSE BigLessFrom(a, b, i - 1)

BigLess(a, b) ==
    IF Len(a) # Len(b) THEN Len(a) < Len(b) ELSE BigLessFrom(a, b, Len(a))

\* |a| is BigNumer(a) / BigDenom(a), in lowest terms
BigNumer(a) ==
    BigMulPow(BigMulPow(BigMulPow(BigFromInt(Abs(a.n)), 2, a.p2), 3, a.p3), 5, a.p5)
BigDenom(a) ==
    BigMulPow(BigMulPow(BigMulPow(BigFromInt(a.d), 2, -a.p2), 3, -a.p3), 5, -a.p5)

\* |a| < |b| for a # 0, b # 0
MagLt(a, b) == LET r == Div(a, b) IN BigLess(BigNumer(r), BigDenom(r))

\* a < b
Lt(a, b) ==
    IF Sign(a) # Sign(b) THEN Sign(a) < Sign(b)
    ELSE IF Sign(a) = 0 THEN FALSE
    ELSE IF Sign(a) > 0 THEN MagLt(a, b)
    ELSE MagLt(b, a)

Gt(a, b) == Lt(b, a)
Leq(a, b) == ~Lt(b, a)

\* Python's f"{x:.<digits>f}": x rounded to the given number of decimal
\* places, ties to even.  The result is the integer count of units of
\* 10^-digits, which fixes the decimal string ("59.68" is 5968 at 2 digits).
Format(x, digits) ==
    LET y     == Mul(x, FromInt(IntPow(10, digits)))
        num   == BigNumer(y)
        den   == BigDenom(y)
        half  == BigDivSmall(num, 2)
        \* floor((2 * num + den) / (2 * den)), den divided out factor by factor
        near  == BigDivSmall(
                     BigDivPow(BigDivPow(BigDivPow(
                         BigDivSmall(BigAdd(BigMulSmall(num, 2, 0), den, 0), y.d),
                         2, -y.p2), 3, -y.p3), 5, -y.p5),
                     2)
        q     == IF den = BigFromInt(1) THEN BigToInt(num)
                 ELSE IF den = BigFromInt(2)
                      THEN BigToInt(half) + (BigToInt(half) % 2)
                 ELSE BigToInt(near)
    IN  Sign(x) * q

----------------------------------------------------------------------------
(* Reference data, lines 17-48 *)

None == ""

AircraftData ==
    [c \in {"General Aviation", "Air Taxi", "eVTOL"} |->
        CASE c = "General Aviation" ->
                [models |-> <<"Pipistrel Alpha Electro", "Bye eFlyer 2">>,
                 power_demand_kW |-> FromInt(56),
                 range_mi |-> Decimal(925, 1),
                 cruise_speed_mph |-> Decimal(1085, 1)]
          [] c = "Air Taxi" ->
                [models |-> <<"Eviation Alice">>,
                 power_demand_kW |-> FromInt(680),
                 range_mi |-> FromInt(506),
                 cruise_speed_mph |-> FromInt(289)]
          [] c = "eVTOL" ->
                [models |-> <<"Joby", "Wisk">>,
                 power_demand_kW |-> FromInt(350),
                 range_mi |-> FromInt(100),
                 cruise_speed_mph |-> FromInt(150)]]

ChargingLevels ==
    [l \in {"Level 1", "Level 2", "Level 3+ (DCFC)"} |->
        CASE l = "Level 1" ->
                [power_kW |-> FromInt(1),
                 description |-> "120V AC, ~1 kW, slow charging"]
          [] l = "Level 2" ->
                [power_kW |-> FromInt(20),
                 description |-> "240V AC, up to 20 kW"]
          [] l = "Level 3+ (DCFC)" ->
                [power_kW |-> FromInt(350),
                 description |-> "DC Fast Charge, 20-350 kW"]]

Scenarios ==
    [s \in {"Low", "Medium", "High"} |->
        CASE s = "Low" ->
                [feasibility_rate |-> Decimal(3, 1),
                 adoption_rate |-> Decimal(35, 2),
                 ops_growth_years |-> 10]
          [] s = "Medium" ->
                [feasibility_rate |-> Decimal(5, 1),
                 adoption_rate |-> Decimal(5, 1),
                 ops_growth_years |-> 8]
          [] s = "High" ->
                [feasibility_rate |-> Decimal(7, 1),
                 adoption_rate |-> Decimal(85, 2),
                 ops_growth_years |-> 5]]

----------------------------------------------------------------------------
(* The calculation functions, lines 59-71.  A call returns a record: exc   *)
(* is the exception the call raised (None when it returned) and value is   *)
(* what it returned.                                                       *)

Returned(v) == [exc |-> None, value |-> v]
Raised(e) == [exc |-> e, value |-> Unassigned]

\* calculate_energy_demand without the halving of operations into flights
EnergyNotHalved(num_ops, category, feas, adopt) ==
    LET data == aircraft_data[category]
    IN  Returned(Div(Mul(Mul(Mul(FromInt(num_ops), feas), adopt),
                         Mul(data.power_demand_kW,
                             Div(data.range_mi, data.cruise_speed_mph))),
                     FromInt(1000)))

\* calculate_energy_demand with num_ops - 2 written for num_ops / 2
EnergyOpsMinusTwo(num_ops, category, feas, adopt) ==
    LET data == aircraft_data[category]
    IN  Returned(Div(Mul(Mul(Mul(FromInt(num_ops - 2), feas), adopt),
                         Mul(data.power_demand_kW,
                             Div(data.range_mi, data.cruise_speed_mph))),
                     FromInt(1000)))

\* calculate_energy_demand dividing by the adoption rate
EnergyPerAdoption(num_ops, category, feas, adopt) ==
    LET data == aircraft_data[category]
    IN  Returned(Div(Mul(Div(Mul(Div(FromInt(num_ops), FromInt(2)), feas), adopt),
                         Mul(data.power_demand_kW,
                             Div(data.range_mi, data.cruise_speed_mph))),
                     FromInt(1000)))

\* calculate_energy_demand reading the table with a default (dict.get):
\* an unknown category counts as the first one
EnergyDefaultCategory(num_ops, category, feas, adopt) ==
    LET data == IF category \in DOMAIN aircraft_data
                THEN aircraft_data[category]
                ELSE aircraft_data["General Aviation"]
    IN  Returned(Div(Mul(Mul(Mul(Div(FromInt(num_ops), FromInt(2)), feas), adopt),
                         Mul(data.power_demand_kW,
                             Div(data.range_mi, data.cruise_speed_mph))),
                     FromInt(1000)))

calculate_energy_demand(num_ops, category, feas, adopt) ==
    IF category \notin DOMAIN aircraft_data
    THEN Raised("KeyError")
    ELSE
        LET data == aircraft_data[category]
            flight_duration_hrs == Div(data.range_mi, data.cruise_speed_mph)
            energy_per_flight_kWh == Mul(data.power_demand_kW, flight_duration_hrs)
            annual_energy_MWh ==
                Div(Mul(Mul(Mul(Div(FromInt(num_ops), FromInt(2)), feas), adopt),
                        energy_per_flight_kWh),
                    FromInt(1000))
        IN  Returned(annual_energy_MWh)

\* calculate_power_demand with the window factor upside down
PowerWindowOver24(annual_energy_MWh, charging_window_hrs) ==
    LET avg_power_kW == Div(Mul(annual_energy_MWh, FromInt(1000)), FromInt(365 * 24))
    IN  Returned(<<avg_power_kW,
                   Div(Mul(Mul(Mul(avg_power_kW, Decimal(17, 1)), Decimal(18, 1)),
                           Div(FromInt(charging_window_hrs), FromInt(24))),
                       FromInt(1000))>>)

calculate_power_demand(annual_energy_MWh, charging_window_hrs) ==
    LET avg_power_kW == Div(Mul(annual_energy_MWh, FromInt(1000)), FromInt(365 * 24))
        seasonality == Decimal(17, 1)
        charging_curve == Decimal(18, 1)
    IN  IF charging_window_hrs = 0
        THEN Raised("ZeroDivisionError")
        ELSE
            LET peak_power_MW ==
                    Div(Mul(Mul(Mul(avg_power_kW, seasonality), charging_curve),
                            Div(FromInt(24), FromInt(charging_window_hrs))),
                        FromInt(1000))
            IN  Returned(<<avg_power_kW, peak_power_MW>>)

\* ScenarioRates with the adoption spread over the scenario's growth years
RatesPerGrowthYear(rec) ==
    <<rec.feasibility_rate, Div(rec.adoption_rate, FromInt(rec.ops_growth_years))>>

\* lines 73-74: what the script reads of the selected scenario's record
ScenarioRates(rec) == <<rec.feasibility_rate, rec.adoption_rate>>

\* CapacityWarning comparing megawatts with kilowatts
WarningUnitsMixed(level, power_kW, peak_MW) ==
    IF Gt(peak_MW, power_kW)
    THEN <<[level |-> level, power_kW |-> power_kW, peak_MW |-> Format(peak_MW, 2)]>>
    ELSE <<>>

\* CapacityWarning with the comparison turned round
WarningWhenBelow(level, power_kW, peak_MW) ==
    IF Lt(Mul(peak_MW, FromInt(1000)), power_kW)
    THEN <<[level |-> level, power_kW |-> power_kW, peak_MW |-> Format(peak_MW, 2)]>>
    ELSE <<>>

\* lines 79-80: the warning shown for a level, its rated power and a peak
CapacityWarning(level, power_kW, peak_MW) ==
    IF Gt(Mul(peak_MW, FromInt(1000)), power_kW)
    THEN <<[level |-> level, power_kW |-> power_kW, peak_MW |-> Format(peak_MW, 2)]>>
    ELSE <<>>

\* lines 84-86: the three metrics as displayed
DisplayedMetrics(energy, avg, peak) ==
    <<[annual_energy_MWh |-> Format(energy, 2),
       average_power_kW |-> Format(avg, 2),
       peak_power_MW |-> Format(peak, 2)]>>

----------------------------------------------------------------------------
(* The script, lines 52-86.  Streamlit runs it top to bottom, once with    *)
(* the widgets' defaults and again each time a widget changes.             *)

OpsDefault == 10000
OpsStep == 1000

\* The values the sidebar widgets can return, lines 52-56
Categories == DOMAIN AircraftData
Levels == DOMAIN ChargingLevels
ScenarioNames == DOMAIN Scenarios
Ops == (0 .. MaxSmallOps) \cup {k * OpsDefault : k \in 1 .. MaxOpsSteps}
Windows == 1 .. 24

\* The arguments of a caller that does not go through the widgets
AnyCategories == Categories \cup {"Helicopter"}
AnyLevels == Levels \cup {"Level 4"}
AnyScenarioNames == ScenarioNames \cup {"Extreme"}
AnyOps == {-OpsStep, -1} \cup (0 .. MaxSmallOps) \cup {OpsDefault}
AnyWindows == -1 .. 25

Init ==
    /\ aircraft_data = AircraftData
    /\ charging_levels = ChargingLevels
    /\ scenarios = Scenarios
    /\ operation_category = "General Aviation"
    /\ num_operations = OpsDefault
    /\ charging_level = "Level 3+ (DCFC)"
    /\ charging_window = 8
    /\ scenario = "Low"
    /\ feasibility = Unassigned
    /\ adoption = Unassigned
    /\ annual_energy = Unassigned
    /\ avg_power = Unassigned
    /\ peak_power = Unassigned
    /\ charging_power_kW = Unassigned
    /\ warning = <<>>
    /\ metrics = <<>>
    /\ exc = None
    /\ pc = "sidebar"

\* Streamlit starts the script again (a widget changed): the run begins
\* from a fresh namespace, nothing of the previous run is kept.
Rerun ==
    /\ pc \in {"done", "raised"}
    /\ operation_category' = "General Aviation"
    /\ num_operations' = OpsDefault
    /\ charging_level' = "Level 3+ (DCFC)"
    /\ charging_window' = 8
    /\ scenario' = "Low"
    /\ feasibility' = Unassigned
    /\ adoption' = Unassigned
    /\ annual_energy' = Unassigned
    /\ avg_power' = Unassigned
    /\ peak_power' = Unassigned
    /\ charging_power_kW' = Unassigned
    /\ warning' = <<>>
    /\ metrics' = <<>>
    /\ exc' = None
    /\ pc' = "sidebar"
    /\ UNCHANGED catalog

\* The five widget calls return the given values.
Widgets(cat, n, lvl, w, sc) ==
    /\ operation_category' = cat
    /\ num_operations' = n
    /\ charging_level' = lvl
    /\ charging_window' = w
    /\ scenario' = sc
    /\ pc' = "rates"
    /\ UNCHANGED <<catalog, feasibility, adoption, annual_energy, avg_power,
                   peak_power, charging_power_kW, warning, metrics, exc>>

\* lines 52-56: the widgets return the user's selections
SidebarInputs ==
    /\ pc = "sidebar"
    /\ \E cat \in Categories, n \in Ops, lvl \in Levels, w \in Windows,
          sc \in ScenarioNames :
           Widgets(cat, n, lvl, w, sc)

\* the same lines fed without the widgets' restrictions
UnvalidatedInputs ==
    /\ pc = "sidebar"
    /\ \E cat \in AnyCategories, n \in AnyOps, lvl \in AnyLevels,
          w \in AnyWindows, sc \in AnyScenarioNames :
           Widgets(cat, n, lvl, w, sc)

\* lines 73-74
LookupScenario ==
    /\ pc = "rates"
    /\ IF scenario \in DOMAIN scenarios
       THEN /\ feasibility' = ScenarioRates(scenarios[scenario])[1]
            /\ adoption' = ScenarioRates(scenarios[scenario])[2]
            /\ pc' = "energy"
            /\ UNCHANGED exc
       ELSE /\ exc' = "KeyError"
            /\ pc' = "raised"
            /\ UNCHANGED <<feasibility, adoption>>
    /\ UNCHANGED <<catalog, inputs, annual_energy, avg_power, peak_power,
                   charging_power_kW, warning, metrics>>

\* line 75
CallEnergyDemand ==
    /\ pc = "energy"
    /\ LET r == calculate_energy_demand(num_operations, operation_category,
                                        feasibility, adoption)
       IN  IF r.exc = None
           THEN /\ annual_energy' = r.value
                /\ pc' = "power"
                /\ UNCHANGED exc
           ELSE /\ exc' = r.exc
                /\ pc' = "raised"
                /\ UNCHANGED annual_energy
    /\ UNCHANGED <<catalog, inputs, feasibility, adoption, avg_power, peak_power,
                   charging_power_kW, warning, metrics>>

\* line 76
CallPowerDemand ==
    /\ pc = "power"
    /\ LET r == calculate_power_demand(annual_energy, charging_window)
       IN  IF r.exc = None
           THEN /\ avg_power' = r.value[1]
                /\ peak_power' = r.value[2]
                /\ pc' = "capacity"
                /\ UNCHANGED exc
           ELSE /\ exc' = r.exc
                /\ pc' = "raised"
                /\ UNCHANGED <<avg_power, peak_power>>
    /\ UNCHANGED <<catalog, inputs, feasibility, adoption, annual_energy,
                   charging_power_kW, warning, metrics>>

\* lines 78-80
CapacityCheck ==
    /\ pc = "capacity"
    /\ IF charging_level \in DOMAIN charging_levels
       THEN /\ charging_power_kW' = charging_levels[charging_level].power_kW
            /\ warning' = CapacityWarning(charging_level,
                                          charging_levels[charging_level].power_kW,
                                          peak_power)
            /\ pc' = "results"
            /\ UNCHANGED exc
       ELSE /\ exc' = "KeyError"
            /\ pc' = "raised"
            /\ UNCHANGED <<charging_power_kW, warning>>
    /\ UNCHANGED <<catalog, inputs, feasibility, adoption, annual_energy,
                   avg_power, peak_power, metrics>>

\* lines 83-86
ShowResults ==
    /\ pc = "results"
    /\ metrics' = DisplayedMetrics(annual_energy, avg_power, peak_power)
    /\ pc' = "done"
    /\ UNCHANGED <<catalog, inputs, feasibility, adoption, annual_energy,
                   avg_power, peak_power, charging_power_kW, warning, exc>>

Next ==
    \/ Rerun
    \/ SidebarInputs
    \/ LookupScenario
    \/ CallEnergyDemand
    \/ CallPowerDemand
    \/ CapacityCheck
    \/ ShowResults

Spec == Init /\ [][Next]_vars

NextCore ==
    \/ Rerun
    \/ UnvalidatedInputs
    \/ LookupScenario
    \/ CallEnergyDemand
    \/ CallPowerDemand
    \/ CapacityCheck
    \/ ShowResults

SpecCore == Init /\ [][NextCore]_vars

----------------------------------------------------------------------------
(* Properties *)

IsNumber(x) == x.d > 0
NonNegative(x) == IsNumber(x) /\ Sign(x) >= 0

EnergyAssigned == pc \in {"power", "capacity", "results", "done"}
PowerAssigned == pc \in {"capacity", "results", "done"}
CapacityChecked == pc \in {"results", "done"}

Rates == {Div(FromInt(k), FromInt(RateSteps)) : k \in 0 .. RateSteps}
GrowthYears == 1 .. MaxGrowthYears

AirTaxiExample ==
    /\ operation_category = "Air Taxi"
    /\ num_operations = 50000
    /\ scenario = "High"
    /\ charging_window = 4
    /\ charging_level = "Level 2"

GeneralAviationExample ==
    /\ operation_category = "General Aviation"
    /\ num_operations = 10000
    /\ scenario = "Medium"
    /\ charging_window = 8

\* C1: once the capacity check has run, a warning is shown if and only if
\* peak_power * 1000 is strictly greater than the rated power of the selected
\* level; the warning carries the level's name, its rated power and the peak
\* as formatted; Air Taxi, 50000 operations, High, 4 h, Level 2 is warned.
C1_WarningIffPeakExceedsRating ==
    CapacityChecked =>
        LET rated == charging_levels[charging_level].power_kW
        IN  /\ (warning # <<>>) <=> Gt(Mul(peak_power, FromInt(1000)), rated)
            /\ warning # <<>> =>
                   warning = <<[level |-> charging_level,
                                power_kW |-> rated,
                                peak_MW |-> Format(peak_power, 2)]>>
            /\ AirTaxiExample => warning # <<>>

C1_Witness ==
    /\ pc = "done"
    /\ AirTaxiExample
    /\ warning # <<>>
    /\ warning[1].level = "Level 2"
    /\ warning[1].power_kW = FromInt(20)

\* C2: a run whose charging window is outside 1..24 ends in an InvalidInput
\* error at the power demand computation.
C2_WindowOutOfRangeRejected ==
    (/\ charging_window \notin Windows
     /\ scenario \in DOMAIN scenarios
     /\ operation_category \in DOMAIN aircraft_data
     /\ pc \in {"capacity", "results", "done", "raised"})
        => (pc = "raised" /\ exc = "InvalidInput")

\* C3: a run whose num_operations is negative ends in an error at the energy
\* demand computation, and no negative energy or power is ever computed.
C3_NegativeOperationsRejected ==
    /\ (/\ num_operations < 0
        /\ scenario \in DOMAIN scenarios
        /\ operation_category \in DOMAIN aircraft_data
        /\ pc \notin {"sidebar", "rates", "energy"})
           => (pc = "raised" /\ exc = "InvalidInput")
    /\ EnergyAssigned => Sign(annual_energy) >= 0
    /\ PowerAssigned => Sign(avg_power) >= 0 /\ Sign(peak_power) >= 0

\* C4: a lookup of a name of the catalog yields that name's record; a lookup
\* of any other name raises KeyError (Python's not-found error), which ends
\* the run; a run with a name outside the catalog displays no metrics and no
\* warning.  (The level's lookup comes after the power computation, so it is
\* reached only by the runs that computation did not end.)
C4_UnknownNameRaisesKeyError ==
    /\ (pc \notin {"sidebar", "rates"} /\ scenario \in DOMAIN scenarios) =>
           /\ feasibility = scenarios[scenario].feasibility_rate
           /\ adoption = scenarios[scenario].adoption_rate
    /\ CapacityChecked =>
           /\ charging_level \in DOMAIN charging_levels
           /\ charging_power_kW = charging_levels[charging_level].power_kW
    /\ (pc \notin {"sidebar", "rates"} /\ scenario \notin DOMAIN scenarios) =>
           (pc = "raised" /\ exc = "KeyError")
    /\ (/\ pc \notin {"sidebar", "rates", "energy"}
        /\ scenario \in DOMAIN scenarios
        /\ operation_category \notin DOMAIN aircraft_data) =>
           (pc = "raised" /\ exc = "KeyError")
    /\ (/\ pc \notin {"sidebar", "rates", "energy", "power", "capacity"}
        /\ scenario \in DOMAIN scenarios
        /\ operation_category \in DOMAIN aircraft_data
        /\ charging_window # 0
        /\ charging_level \notin DOMAIN charging_levels) =>
           (pc = "raised" /\ exc = "KeyError")
    /\ (\/ scenario \notin DOMAIN scenarios
        \/ operation_category \notin DOMAIN aircraft_data
        \/ charging_level \notin DOMAIN charging_levels) =>
           (metrics = <<>> /\ warning = <<>> /\ pc \notin {"results", "done"})

C4_Witness ==
    /\ pc = "raised"
    /\ exc = "KeyError"
    /\ scenario \in DOMAIN scenarios
    /\ operation_category \in DOMAIN aircraft_data
    /\ charging_level \notin DOMAIN charging_levels
    /\ IsNumber(peak_power)
    /\ metrics = <<>>

\* C5: General Aviation, 10000 operations, Medium, 8 h window: the rates read
\* are 0.5 and 0.5, annual_energy is 59.68 and avg_power 6.81 to two
\* decimals, peak_power 0.0625 to four, and the three values are
\* (ops/2)*f*a*power*(range/speed)/1000, then *1000/(365*24), then
\* *1.7*1.8*(24/window)/1000.
C5_GeneralAviationExample ==
    LET half == Decimal(5, 1)
        energy == Div(Mul(Mul(Mul(Div(FromInt(10000), FromInt(2)), half), half),
                          Mul(FromInt(56), Div(Decimal(925, 1), Decimal(1085, 1)))),
                      FromInt(1000))
        avg == Div(Mul(energy, FromInt(1000)), FromInt(365 * 24))
        peak == Div(Mul(Mul(Mul(avg, Decimal(17, 1)), Decimal(18, 1)),
                        Div(FromInt(24), FromInt(8))),
                    FromInt(1000))
    IN  (GeneralAviationExample /\ pc = "done") =>
            /\ feasibility = half /\ adoption = half
            /\ annual_energy = energy /\ Format(annual_energy, 2) = 5968
            /\ avg_power = avg /\ Format(avg_power, 2) = 681
            /\ peak_power = peak /\ Format(peak_power, 4) = 625
            /\ metrics[1].annual_energy_MWh = 5968
            /\ metrics[1].average_power_kW = 681

C5_Witness ==
    /\ GeneralAviationExample
    /\ pc = "done"
    /\ Format(annual_energy, 2) = 5968
    /\ metrics # <<>>

\* C6: with num_operations = 0 the run raises nothing, annual_energy,
\* avg_power and peak_power are 0 and no warning is shown, whatever the
\* category, scenario, level and window.
C6_ZeroOperations ==
    num_operations = 0 =>
        /\ pc # "raised"
        /\ EnergyAssigned => annual_energy = Zero
        /\ PowerAssigned => (avg_power = Zero /\ peak_power = Zero)
        /\ warning = <<>>

C6_Witness ==
    /\ num_operations = 0
    /\ pc = "done"
    /\ charging_level = "Level 1"
    /\ peak_power = Zero
    /\ warning = <<>>

\* C7: for the inputs the widgets allow, no run raises, and annual_energy,
\* avg_power and peak_power are numbers >= 0 once computed.
C7_FiniteNonNegative ==
    /\ pc # "raised" /\ exc = None
    /\ EnergyAssigned => NonNegative(annual_energy)
    /\ PowerAssigned => (NonNegative(avg_power) /\ NonNegative(peak_power))

C7_Witness ==
    /\ pc = "done"
    /\ num_operations = 1
    /\ charging_window = 24
    /\ Sign(annual_energy) > 0
    /\ Sign(avg_power) > 0
    /\ Sign(peak_power) > 0

\* C8: the energy computed is monotone in each of num_operations, the
\* feasibility rate and the adoption rate, the others held fixed: a larger
\* (smaller) value of one of them gives no smaller (no larger) energy.
C8_EnergyMonotone ==
    pc = "power" =>
        LET E(n, f, a) == calculate_energy_demand(n, operation_category, f, a).value
        IN  /\ \A n2 \in Ops :
                   /\ n2 >= num_operations =>
                          Leq(annual_energy, E(n2, feasibility, adoption))
                   /\ n2 <= num_operations =>
                          Leq(E(n2, feasibility, adoption), annual_energy)
            /\ \A r \in Rates :
                   /\ Leq(feasibility, r) =>
                          Leq(annual_energy, E(num_operations, r, adoption))
                   /\ Leq(r, feasibility) =>
                          Leq(E(num_operations, r, adoption), annual_energy)
                   /\ Leq(adoption, r) =>
                          Leq(annual_energy, E(num_operations, feasibility, r))
                   /\ Leq(r, adoption) =>
                          Leq(E(num_operations, feasibility, r), annual_energy)

C8_Witness ==
    /\ pc = "power"
    /\ num_operations = 10000
    /\ Lt(annual_energy,
          calculate_energy_demand(20000, operation_category, feasibility, adoption).value)
    /\ Lt(annual_energy,
          calculate_energy_demand(num_operations, operation_category,
                                  FromInt(1), adoption).value)
    /\ Lt(calculate_energy_demand(num_operations, operation_category,
                                  feasibility, Zero).value,
          annual_energy)

\* C9: for the energy of the run, the peak power is non-increasing in the
\* charging window over 1..24, and the average power is the same for every
\* window.
C9_PeakNonIncreasingInWindow ==
    pc = "capacity" =>
        \A w2 \in Windows :
            LET p == calculate_power_demand(annual_energy, w2).value
            IN  /\ w2 >= charging_window => Leq(p[2], peak_power)
                /\ w2 <= charging_window => Leq(peak_power, p[2])
                /\ p[1] = avg_power

C9_Witness ==
    /\ pc = "capacity"
    /\ charging_window = 8
    /\ Lt(calculate_power_demand(annual_energy, 9).value[2], peak_power)
    /\ Lt(peak_power, calculate_power_demand(annual_energy, 7).value[2])

\* what a run with the inputs of this one displays and computes when the
\* selected scenario's record is rec
Outcome(rec) ==
    LET rates == ScenarioRates(rec)
        e == calculate_energy_demand(num_operations, operation_category,
                                     rates[1], rates[2]).value
        p == calculate_power_demand(e, charging_window).value
    IN  <<e, p[1], p[2],
          CapacityWarning(charging_level,
                          charging_levels[charging_level].power_kW, p[2]),
          DisplayedMetrics(e, p[1], p[2])>>

\* C10: a finished run's energy, powers, warning and metrics are those of
\* any scenario record with the same feasibility and adoption rates, whatever
\* its ops_growth_years; and the three tables are as they were defined.
C10_ScenarioOnlyThroughRates ==
    /\ catalog = <<AircraftData, ChargingLevels, Scenarios>>
    /\ pc = "done" =>
           \A s2 \in DOMAIN scenarios, g \in GrowthYears :
               LET rec == [scenarios[s2] EXCEPT !.ops_growth_years = g]
               IN  (/\ rec.feasibility_rate = scenarios[scenario].feasibility_rate
                    /\ rec.adoption_rate = scenarios[scenario].adoption_rate)
                       => Outcome(rec) = <<annual_energy, avg_power, peak_power,
                                           warning, metrics>>

C10_Witness ==
    /\ pc = "done"
    /\ scenario = "High"
    /\ num_operations = 50000
    /\ warning # <<>>
    /\ Outcome([scenarios["High"] EXCEPT !.ops_growth_years = 1])
           = <<annual_energy, avg_power, peak_power, warning, metrics>>

====
